---- MODULE Spec2Model ----
(***************************************************************************)
(* The session and media-pipeline controller of src/liveClient.ts          *)
(* (class LiveClient) together with the two handlers of src/App.tsx that   *)
(* drive it (toggleConnection, handleSendText).                            *)
(*                                                                         *)
(* Execution is single-threaded and callback-driven: every action below is *)
(* one run-to-completion task of the event loop (a user gesture, a         *)
(* transport callback, the continuation of an await, an audio callback).   *)
(* Promise continuations that are already runnable (microtasks) are part   *)
(* of the task that made them runnable.                                    *)
(***************************************************************************)
EXTENDS Integers, Sequences, FiniteSets, TLC

\* ------------------------------------------------------------------ bounds
\* inbound transport messages per run
MaxMsgs == 2
\* the output clock (AudioContext.currentTime) is observed at 0..MaxClock
MaxClock == 1
\* captured microphone blocks per run
MaxBlocks == 1

\* A run holds the first connect() and one reconnect. Call c opens (at most)
\* transport session c and creates the audio contexts numbered c.
Ids == {1, 2}
\* buffer.duration of a decoded inbound payload
Durations == {1, 2}
\* texts typed by the user; at most one sendText per run and per text
Texts == {"hello"}
\* names a tool-call request can carry; the last one is not a declared tool
ToolNames == {"openWebsite", "setScreenMode", "getSystemTime", "other"}

\* what a run's environment produces beside the connection lifecycle: inbound
\* audio with interruptions on a running clock, inbound audio with decode
\* failures and turn ends, inbound tool calls, or captured blocks and typed
\* texts. A run stays in one family; together the families cover every action.
Traffic == {"audio", "turns", "tools", "capture"}

VARIABLES
  traffic,             \* the family this run draws its traffic from
  \* --- App.tsx
  connectionState,     \* useState<ConnectionState>, set through onStateChange
  logs,                \* useState<LogEntry[]>, appended through onLog
  volume,              \* last value passed to onVolume, in tenths
  \* --- LiveClient fields (0 stands for null)
  ai,                  \* BOOLEAN: this.ai is non-null
  inputAudioContext,   \* 0 or the number of the context
  outputAudioContext,  \* 0 or the number of the context
  inputSource,         \* BOOLEAN: non-null
  processor,           \* BOOLEAN: non-null
  nextStartTime,
  sources,             \* Set<AudioBufferSourceNode>
  currentSession,      \* 0 or the number of the session promise
  \* --- the environment the client talks to
  calls,               \* connect() invocations: where each one is suspended
  sessions,            \* per transport session: socket, promise, queue, sent
  decoding,            \* inbound payloads whose decodeAudioData is pending
  clock,               \* outputAudioContext.currentTime of the current context
  streams,             \* microphone streams acquired and never stopped
  inCtxs,              \* input AudioContexts created and not closed
  outCtxs,             \* output AudioContexts created and not closed
  graphs,              \* capture graphs connected, per input context
  msgs,                \* inbound messages delivered so far
  blocks,              \* microphone blocks captured so far
  texts,               \* texts already typed
  \* --- history, read only by the properties
  schedule,            \* buffers started since the last stopAllAudio
  interruptedAt,       \* output clock when "interrupted" was last handled in the
                       \* current output context (-1: not yet)
  torn,                \* sessions that existed when disconnect() ran
  handled              \* tool-call requests handleToolCall has processed

appVars == <<connectionState, logs, volume>>
clientVars == <<ai, inputAudioContext, outputAudioContext, inputSource, processor,
                nextStartTime, sources, currentSession>>
envVars == <<traffic, calls, sessions, decoding, clock, streams, inCtxs, outCtxs, graphs,
             msgs, blocks, texts>>
histVars == <<schedule, interruptedAt, torn, handled>>
vars == <<appVars, clientVars, envVars, histVars>>

NoSession == [tr |-> "none", pr |-> "none", q |-> <<>>, sent |-> <<>>]

Init ==
  /\ traffic \in Traffic
  /\ connectionState = "DISCONNECTED"
  /\ logs = <<>>
  /\ volume = 0
  /\ ai = FALSE
  /\ inputAudioContext = 0
  /\ outputAudioContext = 0
  /\ inputSource = FALSE
  /\ processor = FALSE
  /\ nextStartTime = 0
  /\ sources = {}
  /\ currentSession = 0
  /\ calls = [c \in Ids |-> [pc |-> "none", text |-> ""]]
  /\ sessions = [s \in Ids |-> NoSession]
  /\ decoding = {}
  /\ clock = 0
  /\ streams = {}
  /\ inCtxs = {}
  /\ outCtxs = {}
  /\ graphs = [c \in Ids |-> 0]
  /\ msgs = 0
  /\ blocks = 0
  /\ texts = {}
  /\ schedule = <<>>
  /\ interruptedAt = -1
  /\ torn = {}
  /\ handled = {}

\* ------------------------------------------------------------------ helpers
Log(source, message) == [source |-> source, message |-> message]

Max(a, b) == IF a < b THEN b ELSE a

\* the playback scheduler's state, threaded through the handlers
Player == [sources |-> sources, nextStartTime |-> nextStartTime,
           volume |-> volume, schedule |-> schedule]

\* stopAllAudio() without sources.clear(): the stopped sources stay in the set
stopAllAudioKeepsSources(p) ==
  [p EXCEPT !.nextStartTime = IF outputAudioContext # 0 THEN clock ELSE @,
            !.volume = 0,
            !.schedule = <<>>]

\* stopAllAudio() resetting nextStartTime to zero instead of the output clock
stopAllAudioResetsToZero(p) ==
  [p EXCEPT !.sources = {},
            !.nextStartTime = 0,
            !.volume = 0,
            !.schedule = <<>>]

\* stopAllAudio(): stop and forget every live source, reset nextStartTime to
\* the current output clock when there is an output context, report volume 0
stopAllAudio(p) ==
  [p EXCEPT !.sources = {},
            !.nextStartTime = IF outputAudioContext # 0 THEN clock ELSE @,
            !.volume = 0,
            !.schedule = <<>>]

\* playAudio(buffer) without the comparison against currentTime: the buffer
\* starts at nextStartTime even when that lies in the past
playAudioNoRaise(p, buf) ==
  IF outputAudioContext = 0 THEN p
  ELSE [p EXCEPT !.nextStartTime = p.nextStartTime + buf.dur,
                 !.sources = @ \cup {[n |-> buf.n, start |-> p.nextStartTime,
                                      dur |-> buf.dur, ctx |-> outputAudioContext,
                                      late |-> buf.late, pre |-> buf.pre]},
                 !.schedule = Append(@, [n |-> buf.n, start |-> p.nextStartTime,
                                         dur |-> buf.dur, clock |-> clock,
                                         before |-> p.nextStartTime])]

\* playAudio(buffer): nothing without an output context; otherwise start the
\* buffer at nextStartTime, first raised to currentTime when it lies behind
playAudio(p, buf) ==
  IF outputAudioContext = 0 THEN p
  ELSE LET currentTime == clock
           startAt == IF p.nextStartTime < currentTime THEN currentTime
                      ELSE p.nextStartTime
       IN [p EXCEPT !.nextStartTime = startAt + buf.dur,
                    !.sources = @ \cup {[n |-> buf.n, start |-> startAt,
                                         dur |-> buf.dur, ctx |-> outputAudioContext,
                                         late |-> buf.late, pre |-> buf.pre]},
                    !.schedule = Append(@, [n |-> buf.n, start |-> startAt,
                                            dur |-> buf.dur, clock |-> currentTime,
                                            before |-> p.nextStartTime])]

SetPlayer(p) ==
  /\ sources' = p.sources
  /\ nextStartTime' = p.nextStartTime
  /\ volume' = p.volume
  /\ schedule' = p.schedule

\* disconnect() without closing and dropping the two audio contexts
disconnectKeepsContexts ==
  /\ SetPlayer(stopAllAudio(Player))
  /\ processor' = FALSE
  /\ inputSource' = FALSE
  /\ UNCHANGED <<graphs, inCtxs, outCtxs, inputAudioContext, outputAudioContext>>
  /\ ai' = FALSE
  /\ currentSession' = 0
  /\ torn' = torn \cup {s \in Ids : sessions[s].tr # "none"}
  /\ decoding' = {[d EXCEPT !.late = TRUE] : d \in decoding}
  /\ interruptedAt' = -1
  /\ clock' = 0

\* disconnect(): stopAllAudio, then release the capture graph, close both
\* contexts, drop the client and the session handle. Closing an input context
\* ends every graph built in it. The transport itself is not closed, and a
\* pending decode stays pending (it is marked late, for the properties).
disconnect ==
  /\ SetPlayer(stopAllAudio(Player))
  /\ processor' = FALSE
  /\ inputSource' = FALSE
  /\ graphs' = IF inputAudioContext # 0
               THEN [graphs EXCEPT ![inputAudioContext] = 0]
               ELSE graphs
  /\ inCtxs' = inCtxs \ {inputAudioContext}
  /\ outCtxs' = outCtxs \ {outputAudioContext}
  /\ inputAudioContext' = 0
  /\ outputAudioContext' = 0
  /\ ai' = FALSE
  /\ currentSession' = 0
  /\ torn' = torn \cup {s \in Ids : sessions[s].tr # "none"}
  /\ decoding' = {[d EXCEPT !.late = TRUE] : d \in decoding}
  /\ interruptedAt' = -1
  /\ clock' = 0

\* ------------------------------------------------- the session promise
Item(kind, id, name, val) == [kind |-> kind, id |-> id, name |-> name, val |-> val]

\* session.sendRealtimeInput / session.sendToolResponse: the item goes out when
\* the socket is open and is lost otherwise
transmit(ses, s, item) ==
  IF ses[s].tr = "open" THEN [ses EXCEPT ![s].sent = Append(@, item)] ELSE ses

\* this.currentSession?.then(session => send).catch(() => {}): nothing without
\* a handle, queued behind a pending promise, sent at once behind a resolved
\* one, swallowed behind a rejected one
thenSend(ses, cur, item) ==
  IF cur = 0 THEN ses
  ELSE IF ses[cur].pr = "pending" THEN [ses EXCEPT ![cur].q = Append(@, item)]
  ELSE IF ses[cur].pr = "resolved" THEN transmit(ses, cur, item)
  ELSE ses

\* sendText(text), given the handle, the sessions and the log as they are when
\* it is called: nothing without a handle; otherwise await the handle, then
\* log the text as the user's and send it; a rejected handle logs an error
sendText(text, cur, ses, lg) ==
  IF cur = 0 THEN [sessions |-> ses, logs |-> lg]
  ELSE IF ses[cur].pr = "pending"
       THEN [sessions |-> [ses EXCEPT ![cur].q = Append(@, Item("text", 0, "", text))],
             logs |-> lg]
  ELSE IF ses[cur].pr = "resolved"
       THEN [sessions |-> transmit(ses, cur, Item("text", 0, "", text)),
             logs |-> Append(lg, Log("user", text))]
  ELSE [sessions |-> ses, logs |-> Append(lg, Log("error", "Failed to send text"))]

\* the log entries the continuations queued on a promise append when it settles
RECURSIVE SettleLogs(_, _)
SettleLogs(q, source) ==
  IF q = <<>> THEN <<>>
  ELSE IF Head(q).kind = "text"
       THEN <<Log(source, IF source = "user" THEN Head(q).val ELSE "Failed to send text")>>
            \o SettleLogs(Tail(q), source)
  ELSE SettleLogs(Tail(q), source)

\* ------------------------------------------------------------- connect()
\* connect() up to its first await: report CONNECTING, create the client and
\* both audio contexts (a fresh output context has a fresh clock), then
\* suspend on getUserMedia. text is what handleSendText sends once connect()
\* has returned ("" when the caller sends nothing).
connect(c, text) ==
  /\ calls[c].pc = "none"
  /\ \A b \in Ids : b < c => calls[b].pc # "none"
  /\ connectionState' = "CONNECTING"
  /\ ai' = TRUE
  /\ inputAudioContext' = c
  /\ outputAudioContext' = c
  /\ inCtxs' = inCtxs \cup {c}
  /\ outCtxs' = outCtxs \cup {c}
  /\ clock' = 0
  /\ interruptedAt' = -1
  /\ calls' = [calls EXCEPT ![c] = [pc |-> "gum", text |-> text]]
  /\ UNCHANGED <<logs, volume, inputSource, processor, nextStartTime, sources,
                 currentSession, sessions, decoding, streams, graphs, msgs, blocks,
                 traffic, schedule, torn, handled>>

\* the catch block of connect(): report ERROR, log the error, tear down
connectFailed(c) ==
  /\ connectionState' = "ERROR"
  /\ logs' = Append(logs, Log("error", "Connection failed"))
  /\ disconnect
  /\ calls' = [calls EXCEPT ![c] = [pc |-> "done", text |-> ""]]
  /\ UNCHANGED <<traffic, sessions, msgs, blocks, texts, handled>>

\* getUserMedia resolves: the stream is live from here on. this.ai.live throws
\* when disconnect() has cleared this.ai in the meantime; otherwise the
\* transport is opened and its promise becomes the session handle. connect()
\* has then returned, and a waiting handleSendText goes on to sendText.
getUserMediaResolved(c) ==
  /\ calls[c].pc = "gum"
  /\ streams' = streams \cup {c}
  /\ IF ai
     THEN LET opened == [sessions EXCEPT ![c] =
                           [tr |-> "opening", pr |-> "pending", q |-> <<>>, sent |-> <<>>]]
              r == IF calls[c].text = "" THEN [sessions |-> opened, logs |-> logs]
                   ELSE sendText(calls[c].text, c, opened, logs)
          IN /\ currentSession' = c
             /\ sessions' = r.sessions
             /\ logs' = r.logs
             /\ calls' = [calls EXCEPT ![c] = [pc |-> "done", text |-> ""]]
             /\ UNCHANGED <<connectionState, volume, ai, inputAudioContext,
                            outputAudioContext, inputSource, processor, nextStartTime,
                            sources, decoding, clock, inCtxs, outCtxs, graphs, msgs,
                            blocks, texts, traffic, histVars>>
     ELSE connectFailed(c)

\* getUserMedia rejects (permission denied, no device)
getUserMediaRejected(c) ==
  /\ calls[c].pc = "gum"
  /\ connectFailed(c)
  /\ UNCHANGED streams

\* ------------------------------------------------------ transport callbacks
\* startAudioInput(stream): nothing without an input context or a session
\* handle; otherwise a new source and processor replace the fields (a graph
\* they held stays connected) and the new graph is connected
startAudioInput ==
  IF inputAudioContext = 0 \/ currentSession = 0
  THEN UNCHANGED <<inputSource, processor, graphs>>
  ELSE /\ inputSource' = TRUE
       /\ processor' = TRUE
       /\ graphs' = [graphs EXCEPT ![inputAudioContext] = @ + 1]

\* the socket opens: the onopen callback runs, and the promise returned by
\* ai.live.connect resolves behind it, in the same task: the continuations
\* queued on the promise run in the order they were queued
onopen(s) ==
  /\ sessions[s].tr = "opening"
  /\ sessions' = [sessions EXCEPT ![s].tr = "open",
                                  ![s].pr = "resolved",
                                  ![s].q = <<>>,
                                  ![s].sent = @ \o sessions[s].q]
  /\ connectionState' = "CONNECTED"
  /\ startAudioInput
  /\ logs' = Append(logs, Log("system", "Connected to Aryan."))
            \o SettleLogs(sessions[s].q, "user")
  /\ UNCHANGED <<volume, ai, inputAudioContext, outputAudioContext, nextStartTime,
                 sources, currentSession, calls, decoding, clock, streams, inCtxs,
                 outCtxs, msgs, blocks, texts, traffic, histVars>>

onclose(s) ==
  /\ sessions[s].tr \in {"open", "failed"}
  /\ sessions' = [sessions EXCEPT ![s].tr = "closed"]
  /\ connectionState' = "DISCONNECTED"
  /\ logs' = Append(logs, Log("system", "Connection closed."))
  /\ disconnect
  /\ UNCHANGED <<traffic, calls, streams, msgs, blocks, texts, handled>>

onerror(s) ==
  /\ sessions[s].tr \in {"opening", "open"}
  /\ sessions' = [sessions EXCEPT ![s].tr = "failed"]
  /\ connectionState' = "ERROR"
  /\ logs' = Append(logs, Log("error", "Network error"))
  /\ disconnect
  /\ UNCHANGED <<traffic, calls, streams, msgs, blocks, texts, handled>>

\* the promise rejects when the socket failed before it opened: queued sends
\* are swallowed by their catch, a queued sendText logs its failure
sessionRejected(s) ==
  /\ sessions[s].pr = "pending"
  /\ sessions[s].tr \in {"failed", "closed"}
  /\ sessions' = [sessions EXCEPT ![s].pr = "rejected", ![s].q = <<>>]
  /\ logs' = logs \o SettleLogs(sessions[s].q, "error")
  /\ UNCHANGED <<connectionState, volume, clientVars, calls, decoding, clock, streams,
                 inCtxs, outCtxs, graphs, msgs, blocks, texts, traffic, histVars>>

\* ------------------------------------------------------------- App.tsx
\* toggleConnection without setConnectionState(DISCONNECTED) after disconnect()
toggleConnectionKeepsState ==
  IF connectionState \in {"CONNECTED", "CONNECTING"}
  THEN /\ disconnect
       /\ UNCHANGED <<connectionState, logs, traffic, calls, sessions, streams, msgs,
                      blocks, texts, handled>>
  ELSE /\ \E c \in Ids : connect(c, "")
       /\ UNCHANGED texts

\* toggleConnection: tear down and show DISCONNECTED when connected or
\* connecting, otherwise connect
toggleConnection ==
  IF connectionState \in {"CONNECTED", "CONNECTING"}
  THEN /\ disconnect
       /\ connectionState' = "DISCONNECTED"
       /\ UNCHANGED <<logs, traffic, calls, sessions, streams, msgs, blocks, texts,
                      handled>>
  ELSE /\ \E c \in Ids : connect(c, "")
       /\ UNCHANGED texts

\* handleSendText: connect first when the shown state is DISCONNECTED, then
\* sendText
handleSendText(text) ==
  /\ traffic = "capture"
  /\ text \notin texts
  /\ texts' = texts \cup {text}
  /\ IF connectionState = "DISCONNECTED"
     THEN \E c \in Ids : connect(c, text)
     ELSE LET r == sendText(text, currentSession, sessions, logs)
          IN /\ sessions' = r.sessions
             /\ logs' = r.logs
             /\ UNCHANGED <<connectionState, volume, clientVars, calls, decoding, clock,
                            streams, inCtxs, outCtxs, graphs, msgs, blocks, traffic,
                            histVars>>

\* ------------------------------------------------------ inbound messages
\* One functionCalls entry: the request id the server chose, the tool name,
\* and whether the handler throws (args without the field it reads).
FunctionCall(id, name, throws) == [id |-> id, name |-> name, throws |-> throws]

\* the functionCalls arrays a tool-call message n can carry: one call of a
\* declared tool, one call whose handler throws, one call of an undeclared
\* name, or two calls
FunctionCalls(n) ==
  {<<FunctionCall(2 * n - 1, "openWebsite", throws)>> : throws \in BOOLEAN}
  \cup {<<FunctionCall(2 * n - 1, "other", FALSE)>>}
  \cup {<<FunctionCall(2 * n - 1, "getSystemTime", FALSE),
          FunctionCall(2 * n, "setScreenMode", TRUE)>>}

Message(audio, ok, interrupted, turnComplete, toolCall) ==
  [audio |-> audio, ok |-> ok, interrupted |-> interrupted,
   turnComplete |-> turnComplete, toolCall |-> toolCall]

\* the LiveServerMessages delivered as message n in a run of family f. audio
\* is the duration of the inline payload (0: none) and ok whether it decodes;
\* toolCall is the functionCalls array (empty: no toolCall field)
Messages(f, n) ==
  IF f = "audio"
  THEN {Message(d, TRUE, FALSE, FALSE, <<>>) : d \in Durations}
       \cup {Message(0, TRUE, TRUE, FALSE, <<>>)}
  ELSE IF f = "turns"
  THEN {Message(1, ok, FALSE, FALSE, <<>>) : ok \in BOOLEAN}
       \cup {Message(0, TRUE, FALSE, TRUE, <<>>)}
  ELSE IF f = "tools"
  THEN {Message(0, TRUE, FALSE, FALSE, fcs) : fcs \in FunctionCalls(n)}
  ELSE {}

\* the body of the try block of handleToolCall for one call: the response
\* object and whether onToolAction was reached
toolResult(fc) ==
  IF fc.name \in {"openWebsite", "setScreenMode"} /\ fc.throws THEN "error"
  ELSE IF fc.name = "openWebsite" THEN "Opened"
  ELSE IF fc.name = "setScreenMode" THEN "Set mode"
  ELSE IF fc.name = "getSystemTime" THEN "time"
  ELSE "ok"

\* handleToolCall walking functionCalls from its last entry to its first
RECURSIVE handleToolCallBackwards(_, _, _, _, _)
handleToolCallBackwards(fcs, from, lg, ses, hd) ==
  IF fcs = <<>> THEN [logs |-> lg, sessions |-> ses, handled |-> hd]
  ELSE LET fc == fcs[Len(fcs)]
           result == toolResult(fc)
       IN handleToolCallBackwards(SubSeq(fcs, 1, Len(fcs) - 1), from,
            Append(lg, [source |-> "ai", message |-> "Executing", type |-> "tool",
                        id |-> fc.id]),
            thenSend(ses, currentSession, Item("tool", fc.id, fc.name, result)),
            hd \cup {[id |-> fc.id, torn |-> from \in torn]})

\* handleToolCall(toolCall): for each call in order, log it, run the handler,
\* and hand the response to the current session handle. hd is the history of
\* what was handled, and whether on a session disconnect() had left behind.
RECURSIVE handleToolCall(_, _, _, _, _)
handleToolCall(fcs, from, lg, ses, hd) ==
  IF fcs = <<>> THEN [logs |-> lg, sessions |-> ses, handled |-> hd]
  ELSE LET fc == Head(fcs)
           result == toolResult(fc)
       IN handleToolCall(Tail(fcs), from,
            Append(lg, [source |-> "ai", message |-> "Executing", type |-> "tool",
                        id |-> fc.id]),
            thenSend(ses, currentSession, Item("tool", fc.id, fc.name, result)),
            hd \cup {[id |-> fc.id, torn |-> from \in torn]})

\* handleMessage after its audio branch, with a turnComplete branch that
\* calls stopAllAudio
afterAudioTurnCompleteStops(m, from, p, pending) ==
  LET p1 == IF m.interrupted \/ m.turnComplete THEN stopAllAudio(p) ELSE p
      lg1 == IF m.interrupted THEN Append(logs, Log("system", "Interrupted."))
             ELSE logs
  IN /\ SetPlayer(p1)
     /\ logs' = lg1
     /\ UNCHANGED <<sessions, handled>>
     /\ decoding' = IF m.interrupted THEN {[d EXCEPT !.pre = TRUE] : d \in pending}
                    ELSE pending
     /\ interruptedAt' = IF m.interrupted /\ outputAudioContext # 0 THEN clock
                         ELSE interruptedAt

\* handleMessage after its audio branch: interrupted, turnComplete, toolCall.
\* p and pending are the player and the pending decodes as the audio branch
\* left them (a decode pending across an "interrupted" is marked pre, for the
\* properties).
afterAudio(m, from, p, pending) ==
  LET p1 == IF m.interrupted THEN stopAllAudio(p) ELSE p
      lg1 == IF m.interrupted THEN Append(logs, Log("system", "Interrupted."))
             ELSE logs
      p2 == IF m.turnComplete THEN [p1 EXCEPT !.volume = 0] ELSE p1
      r == handleToolCall(m.toolCall, from, lg1, sessions, handled)
  IN /\ SetPlayer(p2)
     /\ logs' = r.logs
     /\ sessions' = r.sessions
     /\ handled' = r.handled
     /\ decoding' = IF m.interrupted THEN {[d EXCEPT !.pre = TRUE] : d \in pending}
                    ELSE pending
     /\ interruptedAt' = IF m.interrupted /\ outputAudioContext # 0 THEN clock
                         ELSE interruptedAt

\* which pending decodes can complete next: decodeAudioData is awaited, and
\* nothing orders the completions of two decodes in flight
decodeAudioData(pending) == pending

\* onmessage -> handleMessage(msg), up to its first await: with inline audio
\* and an output context, report volume 0.5 and suspend on the decode;
\* otherwise go straight on
onmessage(s, m) ==
  /\ sessions[s].tr = "open"
  /\ msgs < MaxMsgs
  /\ msgs' = msgs + 1
  /\ IF m.audio # 0 /\ outputAudioContext # 0
     THEN /\ volume' = 5
          /\ decoding' = decoding \cup {[n |-> msgs + 1, from |-> s, m |-> m,
                                          late |-> FALSE, pre |-> FALSE]}
          /\ UNCHANGED <<logs, sessions, nextStartTime, sources, schedule,
                         interruptedAt, handled>>
     ELSE afterAudio(m, s, Player, decoding)
  /\ UNCHANGED <<connectionState, ai, inputAudioContext, outputAudioContext, inputSource,
                 processor, currentSession, calls, clock, streams, inCtxs, outCtxs,
                 graphs, blocks, texts, traffic, torn>>

\* the decode settles, with a catch block that resets the scheduler through
\* stopAllAudio on a failure
decodeSettledFailureStops(d) ==
  /\ d \in decodeAudioData(decoding)
  /\ afterAudio(d.m, d.from,
                IF d.m.ok
                THEN playAudio(Player, [n |-> d.n, dur |-> d.m.audio,
                                        late |-> d.late, pre |-> d.pre])
                ELSE stopAllAudio(Player),
                decoding \ {d})
  /\ UNCHANGED <<connectionState, ai, inputAudioContext, outputAudioContext, inputSource,
                 processor, currentSession, calls, clock, streams, inCtxs, outCtxs,
                 graphs, msgs, blocks, texts, traffic, torn>>

\* the decode settles: playAudio on success, console.error on failure (no log
\* entry), then the rest of handleMessage
decodeSettled(d) ==
  /\ d \in decodeAudioData(decoding)
  /\ afterAudio(d.m, d.from,
                IF d.m.ok
                THEN playAudio(Player, [n |-> d.n, dur |-> d.m.audio,
                                        late |-> d.late, pre |-> d.pre])
                ELSE Player,
                decoding \ {d})
  /\ UNCHANGED <<connectionState, ai, inputAudioContext, outputAudioContext, inputSource,
                 processor, currentSession, calls, clock, streams, inCtxs, outCtxs,
                 graphs, msgs, blocks, texts, traffic, torn>>

\* ----------------------------------------------------------- audio devices
\* source.onended of a buffer that played to its end: drop it from the set
\* and report volume 0 when the set is empty. (The ended event of a source
\* that stopAllAudio stopped finds the set already cleared.)
onended(src) ==
  /\ src \in sources
  /\ \/ src.ctx # outputAudioContext
     \/ src.start + src.dur <= clock
  /\ sources' = sources \ {src}
  /\ volume' = IF sources' = {} THEN 0 ELSE volume
  /\ UNCHANGED <<connectionState, logs, ai, inputAudioContext, outputAudioContext,
                 inputSource, processor, nextStartTime, currentSession, envVars,
                 histVars>>

\* processor.onaudioprocess of a connected graph: report the block's rms and
\* hand the encoded block to the current session handle
onaudioprocess ==
  /\ traffic = "capture"
  /\ \E c \in Ids : graphs[c] > 0
  /\ blocks < MaxBlocks
  /\ blocks' = blocks + 1
  /\ volume' = 3
  /\ sessions' = thenSend(sessions, currentSession, Item("audio", blocks + 1, "", ""))
  /\ UNCHANGED <<connectionState, logs, clientVars, calls, decoding, clock, streams,
                 inCtxs, outCtxs, graphs, msgs, texts, traffic, histVars>>

\* the output context's clock advances. Only the playback scheduler reads
\* the clock, so only the runs with inbound audio observe it advancing.
tick ==
  /\ traffic = "audio"
  /\ outputAudioContext # 0
  /\ clock < MaxClock
  /\ clock' = clock + 1
  /\ UNCHANGED <<appVars, clientVars, calls, sessions, decoding, streams, inCtxs,
                 outCtxs, graphs, msgs, blocks, texts, traffic, histVars>>

\* ------------------------------------------------------------ specification
Environment ==
  \/ \E c \in Ids : getUserMediaResolved(c)
  \/ \E c \in Ids : getUserMediaRejected(c)
  \/ \E s \in Ids : onopen(s)
  \/ \E s \in Ids : onclose(s)
  \/ \E s \in Ids : onerror(s)
  \/ \E s \in Ids : sessionRejected(s)
  \/ \E s \in Ids : \E m \in Messages(traffic, msgs + 1) : onmessage(s, m)
  \/ \E d \in decoding : decodeSettled(d)
  \/ \E src \in sources : onended(src)
  \/ onaudioprocess
  \/ tick

Next ==
  \/ toggleConnection
  \/ \E text \in Texts : handleSendText(text)
  \/ Environment

Spec == Init /\ [][Next]_vars

\* LiveClient on its own, under a caller that holds no state of its own and
\* calls the three public methods whenever it likes
connectCalled == \E c \in Ids : connect(c, "")

disconnectCalled ==
  /\ disconnect
  /\ UNCHANGED <<connectionState, logs, traffic, calls, sessions, streams, msgs, blocks,
                 texts, handled>>

sendTextCalled(text) ==
  /\ traffic = "capture"
  /\ text \notin texts
  /\ texts' = texts \cup {text}
  /\ LET r == sendText(text, currentSession, sessions, logs)
     IN /\ sessions' = r.sessions
        /\ logs' = r.logs
  /\ UNCHANGED <<connectionState, volume, clientVars, calls, decoding, clock, streams,
                 inCtxs, outCtxs, graphs, msgs, blocks, traffic, histVars>>

NextApi ==
  \/ connectCalled /\ UNCHANGED texts
  \/ disconnectCalled
  \/ \E text \in Texts : sendTextCalled(text)
  \/ Environment

SpecApi == Init /\ [][NextApi]_vars

\* ------------------------------------------------------------------ claims
\* how many tool results with request id `id` a sequence of items holds
Results(items, id) ==
  Cardinality({i \in 1..Len(items) : items[i].kind = "tool" /\ items[i].id = id})

RECURSIVE Sum(_, _)
Sum(f, S) == IF S = {} THEN 0
             ELSE LET x == CHOOSE y \in S : TRUE IN f[x] + Sum(f, S \ {x})

\* results for request `id` sent over a transport, and results still queued
\* behind a pending session promise
ResultsSent(id) == Sum([s \in Ids |-> Results(sessions[s].sent, id)], Ids)
ResultsQueued(id) == Sum([s \in Ids |-> Results(sessions[s].q, id)], Ids)

\* a step in which disconnect() runs, by any of its callers
disconnectRuns ==
  \/ connectionState \in {"CONNECTED", "CONNECTING"} /\ toggleConnection
  \/ \E s \in Ids : onclose(s)
  \/ \E s \in Ids : onerror(s)
  \/ \E c \in Ids : getUserMediaRejected(c)
  \/ \E c \in Ids : ~ai /\ getUserMediaResolved(c)

\* the client as disconnect() leaves it: running disconnect() here changes no
\* field and no notification value
TornDown ==
  /\ stopAllAudio(Player) = Player
  /\ ~processor
  /\ ~inputSource
  /\ inputAudioContext = 0
  /\ outputAudioContext = 0
  /\ ~ai
  /\ currentSession = 0

NoAudioResources ==
  /\ streams = {}
  /\ inCtxs = {}
  /\ outCtxs = {}
  /\ \A c \in Ids : graphs[c] = 0
  /\ sources = {}

\* a step in which handleMessage reaches its "interrupted" branch
handlesInterrupted ==
  \/ \E s \in Ids : \E m \in Messages(traffic, msgs + 1) :
       /\ m.interrupted
       /\ ~(m.audio # 0 /\ outputAudioContext # 0)
       /\ onmessage(s, m)
  \/ \E d \in decoding : d.m.interrupted /\ decodeSettled(d)

\* C1: every tool-call request that handleToolCall has processed has exactly
\* one result carrying its id, sent over a transport or queued to be sent
\* once the session promise resolves; never zero results.
C1_OneResultPerRequest ==
  \A h \in handled : ResultsSent(h.id) + ResultsQueued(h.id) = 1

\* C2: every run of disconnect(), whatever the session state it is called in,
\* leaves the live-source set empty and the session handle null, and leaves
\* the client in a state where a second disconnect() changes nothing: a run
\* of disconnect() on a client a previous run has left changes no field of
\* the client and not the volume.
C2_DisconnectIdempotent ==
  [][disconnectRuns =>
       /\ sources' = {}
       /\ currentSession' = 0
       /\ TornDown'
       /\ TornDown => UNCHANGED <<clientVars, volume>>]_vars

\* C2 witness: disconnect() has run on a client that had a transport session
\* and had scheduled audio or let the output clock advance.
C2_Witness == TornDown /\ torn # {} /\ nextStartTime > 0

\* C3: connect() called while the session state is Connecting or Connected
\* changes neither the state nor the session handle nor the audio contexts,
\* and starts no second transport.
C3_ConnectIsNoOp ==
  [][(connectionState \in {"CONNECTING", "CONNECTED"} /\ connectCalled)
       => UNCHANGED <<connectionState, currentSession, inputAudioContext,
                      outputAudioContext, inCtxs, outCtxs, calls>>]_vars

\* C4: in every state other than Connected, and in every state disconnect()
\* has left, no microphone stream, audio context, capture graph or live
\* source is allocated.
C4_NoResourcesUnlessConnected ==
  (connectionState # "CONNECTED" \/ TornDown) => NoAudioResources

C6_ScheduleNoOverlap ==
  /\ \A i \in 1..Len(schedule) :
       /\ schedule[i].start = Max(schedule[i].clock, schedule[i].before)
       /\ i > 1 => /\ schedule[i].before = schedule[i - 1].start + schedule[i - 1].dur
                   /\ schedule[i].start >= schedule[i - 1].start + schedule[i - 1].dur
  /\ schedule # <<>> =>
       nextStartTime = schedule[Len(schedule)].start + schedule[Len(schedule)].dur

\* C6 witness: two buffers scheduled back to back, the second behind the
\* first, and the first one raised to the clock.
C6_Witness ==
  /\ Len(schedule) = 2
  /\ schedule[1].start > schedule[1].before
  /\ schedule[2].start = schedule[1].start + schedule[1].dur

\* C7: handling "interrupted" empties the live-source set, sets nextStartTime
\* to the output clock (when there is an output context to read it from),
\* reports volume 0 and appends one system log entry; and every buffer
\* scheduled since the last interruption in the current output context starts
\* no earlier than the clock at that interruption.
C7_InterruptedResets ==
  [][/\ handlesInterrupted =>
          /\ sources' = {}
          /\ outputAudioContext # 0 => nextStartTime' = clock
          /\ volume' = 0
          /\ logs' = Append(logs, Log("system", "Interrupted."))
     /\ interruptedAt' >= 0 =>
          \A i \in 1..Len(schedule') : schedule'[i].start >= interruptedAt']_vars

\* C7 witness: an interruption was handled with the clock past 0 and a buffer
\* has been scheduled after it.
C7_Witness == interruptedAt >= 1 /\ schedule # <<>> /\ sources # {}

\* C8: no payload whose decode was pending when "interrupted" was handled is
\* in the live-source set afterwards.
C8_InterruptedPreemptsPending == \A src \in sources : ~src.pre

\* C9: no payload whose decode was pending when disconnect() ran is in the
\* live-source set afterwards, also when connect() ran again in between.
C9_NoPlaybackAfterDisconnect == \A src \in sources : ~src.late

\* C10: when disconnect() has run while transport s was opening, the open
\* notification of s neither reports Connected nor starts the capture graph.
C10_NoOpenAfterDisconnect ==
  [][\A s \in Ids : (s \in torn /\ onopen(s)) =>
        /\ connectionState' # "CONNECTED"
        /\ processor' = processor
        /\ graphs' = graphs]_vars

\* C11: of two payloads in the live-source set of one output context, neither
\* of them pending across an interruption or a disconnect(), the one that
\* arrived first starts first.
C11_ScheduledInArrivalOrder ==
  \A a \in sources : \A b \in sources :
    (a.n < b.n /\ a.ctx = b.ctx /\ ~a.pre /\ ~b.pre /\ ~a.late /\ ~b.late)
      => a.start < b.start

\* a step in which sendText(text) is called: by handleSendText at once when
\* the state shown is not Disconnected, and otherwise once the connect() it
\* awaits has returned
sendTextRuns(text) ==
  \/ connectionState # "DISCONNECTED" /\ handleSendText(text)
  \/ \E c \in Ids : calls[c].text = text /\ getUserMediaResolved(c)
  \/ \E c \in Ids : calls[c].text = text /\ getUserMediaRejected(c)

\* C12: every call of sendText(text) appends the user's log entry for text in
\* the same step, and a text is on a transport's wire only when that
\* session's promise has resolved.
C12_SendTextLogsImmediately ==
  [][/\ \A text \in Texts :
          sendTextRuns(text) =>
            \E i \in (Len(logs) + 1)..Len(logs') : logs'[i] = Log("user", text)
     /\ \A s \in Ids :
          (\E i \in 1..Len(sessions'[s].sent) : sessions'[s].sent[i].kind = "text")
            => sessions'[s].pr = "resolved"]_vars

\* C13: a transport error notification reports Error and a transport close
\* notification reports Disconnected; either appends exactly one log entry
\* and leaves the live-source set empty, no capture graph connected, no audio
\* context open or held, and the session handle null.
C13_ErrorAndCloseTearDown ==
  [][\A s \in Ids :
       /\ onerror(s) => /\ connectionState' = "ERROR"
                        /\ logs' = Append(logs, Log("error", "Network error"))
       /\ onclose(s) => /\ connectionState' = "DISCONNECTED"
                        /\ logs' = Append(logs, Log("system", "Connection closed."))
       /\ (onerror(s) \/ onclose(s)) =>
            /\ sources' = {}
            /\ \A c \in Ids : graphs'[c] = 0
            /\ ~processor' /\ ~inputSource'
            /\ inCtxs' = {} /\ outCtxs' = {}
            /\ inputAudioContext' = 0 /\ outputAudioContext' = 0
            /\ currentSession' = 0]_vars

\* C13 witness: a transport that was open with its capture graph running has
\* reported an error, and the client is torn down in state Error.
C13_Witness ==
  /\ connectionState = "ERROR"
  /\ TornDown
  /\ \E s \in Ids : sessions[s].tr = "failed" /\ sessions[s].pr = "resolved"
  /\ logs # <<>> /\ logs[Len(logs)] = Log("error", "Network error")

\* a send that finds no session handle, a pending or rejected one, or a
\* socket that is not open
sendNotReady == currentSession = 0 \/ sessions[currentSession].tr # "open"

\* a step in which a failure below the connection level happens: an inbound
\* payload fails to decode, a tool handler raises, an audio block or a text
\* is sent while the session is not ready, or the sends queued on a session
\* promise fail with it
localFailure ==
  \/ \E d \in decoding : ~d.m.ok /\ decodeSettled(d)
  \/ \E s \in Ids : \E m \in Messages(traffic, msgs + 1) :
       /\ \E i \in 1..Len(m.toolCall) : toolResult(m.toolCall[i]) = "error"
       /\ onmessage(s, m)
  \/ sendNotReady /\ onaudioprocess
  \/ \E text \in Texts :
       sendNotReady /\ connectionState # "DISCONNECTED" /\ handleSendText(text)
  \/ \E s \in Ids : sessionRejected(s)

\* C14: a decode failure, a raising tool handler and a failed or not-ready
\* send leave the session state, the session handle, the live-source set and
\* nextStartTime unchanged, and leave every transport as it was, so that the
\* messages after it are still delivered and handled.
C14_LocalFailuresAreLocal ==
  [][localFailure =>
       /\ UNCHANGED <<connectionState, currentSession, sources, nextStartTime>>
       /\ \A s \in Ids : sessions'[s].tr = sessions[s].tr]_vars

\* C14 witness: in a connected session a tool handler raised (its error
\* result went out) and the tool call of the next message was handled too.
C14_Witness ==
  /\ connectionState = "CONNECTED"
  /\ \E s \in Ids :
       /\ sessions[s].tr = "open"
       /\ \E i \in 1..Len(sessions[s].sent) : \E j \in 1..Len(sessions[s].sent) :
            /\ i < j
            /\ sessions[s].sent[i].val = "error"
            /\ sessions[s].sent[j].kind = "tool"
            /\ sessions[s].sent[j].id = 3

\* the step appends exactly one log entry, of source error
logsOneError ==
  /\ Len(logs') = Len(logs) + 1
  /\ \A i \in 1..Len(logs) : logs'[i] = logs[i]
  /\ logs'[Len(logs')].source = "error"

\* C15: each setup exception in connect() (getUserMedia rejecting, this.ai
\* gone when it resolves), each transport error and each failed decode of an
\* inbound payload appends exactly one log entry of source error.
C15_FailuresAreLogged ==
  [][/\ (\E c \in Ids : getUserMediaRejected(c) /\ calls[c].text = "") => logsOneError
     /\ (\E c \in Ids : ~ai /\ getUserMediaResolved(c) /\ calls[c].text = "")
          => logsOneError
     /\ (\E s \in Ids : onerror(s)) => logsOneError
     /\ (\E d \in decoding : ~d.m.ok /\ decodeSettled(d)) => logsOneError]_vars

\* C16: when a session promise resolves, no captured audio block is waiting
\* behind it to be transmitted (a block captured before that was dropped),
\* and the audio blocks on each transport's wire are in capture order.
C16_EarlyBlocksAreDropped ==
  [][\A s \in Ids :
       /\ onopen(s) => \A i \in 1..Len(sessions[s].q) : sessions[s].q[i].kind # "audio"
       /\ \A i \in 1..Len(sessions'[s].sent) : \A j \in 1..Len(sessions'[s].sent) :
            (/\ i < j
             /\ sessions'[s].sent[i].kind = "audio"
             /\ sessions'[s].sent[j].kind = "audio")
              => sessions'[s].sent[i].id < sessions'[s].sent[j].id]_vars

\* the request ids of the tool results in a sequence of items / of the
\* tool-tagged entries in the log, in order
RECURSIVE ToolIds(_)
ToolIds(items) ==
  IF items = <<>> THEN <<>>
  ELSE IF "kind" \in DOMAIN Head(items) /\ Head(items).kind = "tool"
       THEN <<Head(items).id>> \o ToolIds(Tail(items))
  ELSE IF "type" \in DOMAIN Head(items) /\ Head(items).type = "tool"
       THEN <<Head(items).id>> \o ToolIds(Tail(items))
  ELSE ToolIds(Tail(items))

Ascending(ids) == \A i \in 1..Len(ids) : \A j \in 1..Len(ids) : i < j => ids[i] < ids[j]

handlesTurnComplete ==
  \E s \in Ids : \E m \in Messages(traffic, msgs + 1) :
    m.turnComplete /\ onmessage(s, m)

\* C18: handling "turn complete" reports volume 0 and leaves the live-source
\* set and nextStartTime as they were.
C18_TurnCompleteKeepsAudio ==
  [][handlesTurnComplete => (volume' = 0 /\ UNCHANGED <<sources, nextStartTime>>)]_vars

\* C18 witness: in a session never torn down, the turn has ended (volume 0)
\* while a scheduled buffer is still in the live-source set.
C18_Witness ==
  /\ traffic = "turns"
  /\ torn = {}
  /\ volume = 0
  /\ sources # {}
  /\ schedule # <<>>
  /\ outputAudioContext # 0

\* C19: with an output context and an empty live-source set, nextStartTime
\* is at most the output clock, so that the next buffer starts at the clock.
C19_NoCarriedOverStartTime ==
  (outputAudioContext # 0 /\ sources = {}) => nextStartTime <= clock

\* C20: a message that arrives on a session disconnect() has left behind
\* appends no log entry, runs no tool handler, and puts nothing on that
\* session's wire; and no audio block, text or tool result is sent or queued
\* on such a session by any step.
C20_TornDownSessionIsInert ==
  [][\A s \in torn :
       /\ \A m \in Messages(traffic, msgs + 1) :
            onmessage(s, m) => (logs' = logs /\ handled' = handled)
       /\ sessions'[s].sent = sessions[s].sent
       /\ sessions'[s].q = <<>> \/ sessions'[s].q = sessions[s].q]_vars

\* C21: while the state is Error, every step other than a connect() leaves
\* it Error; in particular the close notification of the transport whose
\* error was reported does not replace Error by Disconnected.
C21_ErrorStaysError ==
  [][connectionState = "ERROR" =>
       /\ connectionState' \in {"ERROR", "CONNECTING"}
       /\ \A s \in Ids :
            (sessions[s].tr = "failed" /\ onclose(s)) => connectionState' = "ERROR"]_vars

====
